---------------------------- MODULE Spec2Model ----------------------------
(***************************************************************************)
(* A model of main.py: a FastAPI application with seven route handlers     *)
(* over a static in-memory catalog, wrapped by a Prometheus request        *)
(* instrumentator and an OpenTelemetry tracing pipeline (a                 *)
(* BatchSpanProcessor feeding an OTLP exporter), started and stopped       *)
(* through a lifespan context manager.                                     *)
(*                                                                         *)
(* Strings that the handlers inspect (item names, the name query, the raw  *)
(* item_id path segment) are sequences of one-character strings.  Text     *)
(* the handlers only pass through (messages, details) are TLA+ strings.    *)
(***************************************************************************)
EXTENDS Integers, Sequences, FiniteSets, TLC

(***************************************************************************)
(* Bounds of the model.                                                    *)
(***************************************************************************)
\* requests dispatched in one behaviour
MaxRequests == 2
\* requests in flight at once
MaxInflight == 2
\* capacity of the BatchSpanProcessor queue (the library default is 2048)
MaxQueue == 2
\* spans the worker hands to the exporter in one export call
MaxBatch == 1

(***************************************************************************)
(* Text.                                                                   *)
(***************************************************************************)
Upper == <<"A","B","C","D","E","F","G","H","I","J","K","L","M",
           "N","O","P","Q","R","S","T","U","V","W","X","Y","Z">>
Lowercase == <<"a","b","c","d","e","f","g","h","i","j","k","l","m",
               "n","o","p","q","r","s","t","u","v","w","x","y","z">>
Digits == <<"0","1","2","3","4","5","6","7","8","9">>

\* the lower-case letter of every upper-case letter
ToLower ==
    [c \in {Upper[i] : i \in 1..Len(Upper)} |->
        Lowercase[CHOOSE i \in 1..Len(Upper) : Upper[i] = c]]

\* str.lower() on one character
LowerChar(c) == IF c \in DOMAIN ToLower THEN ToLower[c] ELSE c

\* str.lower()
Lower(s) == [i \in 1..Len(s) |-> LowerChar(s[i])]

\* Python's `needle in hay` for two strings: scan the offsets left to right
RECURSIVE StrInFrom(_, _, _)
StrInFrom(needle, hay, k) ==
    IF k + Len(needle) > Len(hay) THEN FALSE
    ELSE IF SubSeq(hay, k + 1, k + Len(needle)) = needle THEN TRUE
    ELSE StrInFrom(needle, hay, k + 1)

StrIn(needle, hay) == StrInFrom(needle, hay, 0)

IsDigit(c) == \E i \in 1..Len(Digits) : Digits[i] = c
DigitVal(c) == (CHOOSE i \in 1..Len(Digits) : Digits[i] = c) - 1

RECURSIVE DigitsVal(_)
DigitsVal(s) ==
    IF s = <<>> THEN 0
    ELSE 10 * DigitsVal(SubSeq(s, 1, Len(s) - 1)) + DigitVal(s[Len(s)])

\* the `item_id: int` annotation: the path segment is parsed as a decimal
\* integer (an optional minus sign, then digits), or validation fails
ParseInt(s) ==
    LET neg == s # <<>> /\ s[1] = "-"
        ds  == IF neg THEN Tail(s) ELSE s
    IN  IF ds # <<>> /\ \A i \in 1..Len(ds) : IsDigit(ds[i])
        THEN [ok |-> TRUE, val |-> IF neg THEN 0 - DigitsVal(ds) ELSE DigitsVal(ds)]
        ELSE [ok |-> FALSE, val |-> 0]

(***************************************************************************)
(* The catalog.                                                            *)
(***************************************************************************)
Laptop == <<"l","a","p","t","o","p">>
Mouse == <<"m","o","u","s","e">>
Keyboard == <<"k","e","y","b","o","a","r","d">>
Monitor == <<"m","o","n","i","t","o","r">>
Webcam == <<"w","e","b","c","a","m">>

\* a FAKE_ITEMS_DB whose ids 2 and 3 name each other's item
InitDB_swapped ==
    1 :> [name |-> Laptop, price |-> 1200] @@
    2 :> [name |-> Keyboard, price |-> 75] @@
    3 :> [name |-> Mouse, price |-> 25]

\* FAKE_ITEMS_DB as the module builds it
InitDB ==
    1 :> [name |-> Laptop, price |-> 1200] @@
    2 :> [name |-> Mouse, price |-> 25] @@
    3 :> [name |-> Keyboard, price |-> 75]

\* ALL_ITEMS as the module builds it
InitItems ==
    << [name |-> Laptop, price |-> 1200],
       [name |-> Mouse, price |-> 25],
       [name |-> Keyboard, price |-> 75],
       [name |-> Monitor, price |-> 300],
       [name |-> Webcam, price |-> 50] >>


(***************************************************************************)
(* Values crossing the validation boundary.  A raw value is what the       *)
(* client sent: [t |-> "absent"] for a missing field or parameter,         *)
(* [t |-> "null"], [t |-> "str", s |-> chars], [t |-> "int", n |-> n],     *)
(* [t |-> "float", c |-> hundredths], [t |-> "bool", b |-> b], and         *)
(* [t |-> "nan"], [t |-> "inf"], [t |-> "ninf"] for the float literals a   *)
(* query string can spell.  A validated float is [t |-> "float", c |-> h]  *)
(* (its value in hundredths) or one of the three special values.           *)
(***************************************************************************)
None == [t |-> "none"]
Absent == [t |-> "absent"]
Str(s) == [t |-> "str", s |-> s]
IntRaw(n) == [t |-> "int", n |-> n]
FloatRaw(c) == [t |-> "float", c |-> c]
BoolRaw(b) == [t |-> "bool", b |-> b]

\* an integer as a count of hundredths
Hundredths(n) == 100 * n

\* validation of a value against `float`
ValidateFloat(raw) ==
    CASE raw.t = "int" -> [ok |-> TRUE, val |-> [t |-> "float", c |-> Hundredths(raw.n)]]
      [] raw.t = "float" -> [ok |-> TRUE, val |-> raw]
      [] raw.t \in {"nan", "inf", "ninf"} -> [ok |-> TRUE, val |-> raw]
      [] OTHER -> [ok |-> FALSE, val |-> None]

\* validation of a value against `str`
ValidateStr(raw) ==
    IF raw.t = "str" THEN [ok |-> TRUE, val |-> raw.s] ELSE [ok |-> FALSE, val |-> <<>>]

\* validation of a value against `Optional[bool] = None`
ValidateOptBool(raw) ==
    CASE raw.t \in {"absent", "null"} -> [ok |-> TRUE, val |-> None]
      [] raw.t = "bool" -> [ok |-> TRUE, val |-> raw]
      [] OTHER -> [ok |-> FALSE, val |-> None]

\* an Item that refuses a negative price and an empty name
Item_bounded(body) ==
    LET n == ValidateStr(body.name)
        p == ValidateFloat(body.price)
        o == ValidateOptBool(body.is_offer)
    IN  [ok |-> /\ n.ok /\ p.ok /\ o.ok
                /\ n.val # <<>>
                /\ (p.val.t = "float" => p.val.c >= 0),
         val |-> [name |-> n.val, price |-> p.val, is_offer |-> o.val]]

\* class Item(BaseModel): name: str, price: float, is_offer: Optional[bool] = None
Item(body) ==
    LET n == ValidateStr(body.name)
        p == ValidateFloat(body.price)
        o == ValidateOptBool(body.is_offer)
    IN  [ok |-> n.ok /\ p.ok /\ o.ok,
         val |-> [name |-> n.val, price |-> p.val, is_offer |-> o.val]]

\* item.dict()
ItemDict(item) ==
    [name |-> item.name, price |-> item.price, is_offer |-> item.is_offer]

\* `min_price: float = 0`
MinPriceParam(raw) ==
    IF raw.t = "absent" THEN [ok |-> TRUE, val |-> [t |-> "float", c |-> 0]]
    ELSE ValidateFloat(raw)

\* `name: Optional[str] = None`
NameParam(raw) ==
    IF raw.t = "absent" THEN [ok |-> TRUE, val |-> None]
    ELSE [ok |-> raw.t = "str", val |-> raw]

\* item["price"] >= min_price, an int against a float
PriceGe(price, m) ==
    CASE m.t = "float" -> Hundredths(price) >= m.c
      [] m.t = "ninf" -> TRUE
      [] OTHER -> FALSE

(***************************************************************************)
(* Responses and route handlers.                                           *)
(***************************************************************************)
\* raise HTTPException(status_code, detail), as FastAPI renders it
HTTPException(status_code, detail) ==
    [status |-> status_code, body |-> [detail |-> detail]]

\* a request-validation failure, as FastAPI renders it
ValidationError == [status |-> 422, body |-> [detail |-> "validation error"]]

Ok(body) == [status |-> 200, body |-> body]

read_root == Ok([message |-> "Welcome to the FastAPI application!"])

\* read_item answering an unknown id with the wrong status
read_item_bad_status(item_id, db) ==
    IF item_id \notin DOMAIN db
    THEN HTTPException(400, "Item not found")
    ELSE Ok(db[item_id] @@ [item_id |-> item_id])

read_item(item_id, db) ==
    IF item_id \notin DOMAIN db
    THEN HTTPException(404, "Item not found")
    ELSE Ok(db[item_id] @@ [item_id |-> item_id])

\* the condition with an exclusive price bound
SearchCond_exclusive(item, name, min_price) ==
    /\ (name.t = "none" \/ StrIn(Lower(name.s), Lower(item.name)))
    /\ PriceGe(item.price, min_price)
    /\ (min_price.t = "float" => Hundredths(item.price) > min_price.c)

\* the condition of the list comprehension of search_items
SearchCond(item, name, min_price) ==
    /\ (name.t = "none" \/ StrIn(Lower(name.s), Lower(item.name)))
    /\ PriceGe(item.price, min_price)

\* the list comprehension of search_items, over items[k..]
RECURSIVE SearchFrom(_, _, _, _)
SearchFrom(items, k, name, min_price) ==
    IF k > Len(items) THEN <<>>
    ELSE (IF SearchCond(items[k], name, min_price) THEN <<items[k]>> ELSE <<>>)
         \o SearchFrom(items, k + 1, name, min_price)

search_items(name, min_price, items) ==
    Ok([search_results |-> SearchFrom(items, 1, name, min_price)])

create_item(item) ==
    Ok([message |-> "Item created successfully", item |-> ItemDict(item)])

get_status == Ok([status |-> "healthy", version |-> "1.0"])

get_error_500 == HTTPException(500, "Internal Server Error")

get_error_400 == HTTPException(400, "Bad Request")

\* the exposition route that instrumentator.expose(app) registers
metrics_route(exposed) ==
    IF exposed THEN Ok([exposition |-> "text"]) ELSE HTTPException(404, "Not Found")

\* One request through validation and its handler: the response, and whether
\* the handler body ran.
App(req, db, items, exposed) ==
    CASE req.route = "read_root" -> [resp |-> read_root, ran |-> TRUE]
      [] req.route = "read_item" ->
            LET id == ParseInt(req.item_id)
            IN  IF id.ok THEN [resp |-> read_item(id.val, db), ran |-> TRUE]
                ELSE [resp |-> ValidationError, ran |-> FALSE]
      [] req.route = "search_items" ->
            LET n == NameParam(req.name)
                m == MinPriceParam(req.min_price)
            IN  IF n.ok /\ m.ok
                THEN [resp |-> search_items(n.val, m.val, items), ran |-> TRUE]
                ELSE [resp |-> ValidationError, ran |-> FALSE]
      [] req.route = "create_item" ->
            LET item == Item(req.body)
            IN  IF item.ok THEN [resp |-> create_item(item.val), ran |-> TRUE]
                ELSE [resp |-> ValidationError, ran |-> FALSE]
      [] req.route = "get_status" -> [resp |-> get_status, ran |-> TRUE]
      [] req.route = "get_error_500" -> [resp |-> get_error_500, ran |-> TRUE]
      [] req.route = "get_error_400" -> [resp |-> get_error_400, ran |-> TRUE]
      [] req.route = "metrics" -> [resp |-> metrics_route(exposed), ran |-> exposed]

\* create_item storing the item it validated
ItemsAfter_stored(req, items) ==
    IF req.route = "create_item" /\ Item(req.body).ok
    THEN Append(items, [name |-> Item(req.body).val.name,
                        price |-> Item(req.body).val.price.c \div 100])
    ELSE items

\* ALL_ITEMS after a request has been handled: no handler assigns to it
ItemsAfter(req, items) == items

\* FAKE_ITEMS_DB after a request has been handled: no handler assigns to it
DBAfter(req, db) == db


(***************************************************************************)
(* Instrumentation.                                                        *)
(***************************************************************************)
\* the route template and method a request is labelled with
Handler(req) ==
    CASE req.route = "read_root" -> "/"
      [] req.route = "read_item" -> "/items/{item_id}"
      [] req.route = "search_items" -> "/search/"
      [] req.route = "create_item" -> "/items/"
      [] req.route = "get_status" -> "/status"
      [] req.route = "get_error_500" -> "/error-500"
      [] req.route = "get_error_400" -> "/error-400"
      [] req.route = "metrics" -> "/metrics"

Method(req) == IF req.route = "create_item" THEN "POST" ELSE "GET"

\* Instrumentator() groups status codes by their hundreds: 2 is "2xx"
StatusGroup(status) == status \div 100

\* the sample Instrumentator().instrument(app) records for a finished request
Sample(r, resp) ==
    << [id |-> r.id, handler |-> Handler(r.req), method |-> Method(r.req),
        status |-> StatusGroup(resp.status)] >>

\* a span that is never ended when the handler raised
Span_lost_on_error(r, resp) ==
    IF resp.status >= 400 THEN <<>>
    ELSE << [id |-> r.id, name |-> Handler(r.req), status |-> resp.status] >>

\* the server span FastAPIInstrumentor.instrument_app(app) ends for a
\* finished request
Span(r, resp) ==
    << [id |-> r.id, name |-> Handler(r.req), status |-> resp.status] >>

\* a span exported while the request waits, its failure raised to the client
Respond_export_inline(resp, up) ==
    IF up THEN resp ELSE HTTPException(500, "Internal Server Error")

\* The response the client receives once the request's span has been ended:
\* BatchSpanProcessor.on_end only queues the span, whatever the collector's
\* state, and the response passes through unchanged.
Respond(resp, up) == resp

\* requests answered one at a time, in the order of their arrival
CanRun_in_turn(r, others) == \A o \in others : o.id > r.id

\* Whether a request in flight may run to completion: the handlers are
\* coroutines that take no lock and await nothing.
CanRun(r, others) == TRUE

\* BatchSpanProcessor.on_end: queue the span unless the processor has been
\* shut down or the queue is full; in both cases the span is dropped
OnEnd(queue, span, open) ==
    IF open /\ Len(queue) < MaxQueue THEN queue \o span ELSE queue

(***************************************************************************)
(* The lifespan context manager.                                           *)
(***************************************************************************)
\* a lifespan that does not expose the metrics before `yield`
lifespan_startup_unexposed(exposed) == exposed

\* whether /metrics is registered after the code before `yield` has run:
\* instrumentator.expose(app)
lifespan_startup(exposed) == TRUE

\* whether the span processor is still accepting spans after the code after
\* `yield` has run: it only logs
lifespan_shutdown(open) == open

(***************************************************************************)
(* State.                                                                  *)
(***************************************************************************)
VARIABLES
    lifecycle,       \* NotStarted, Running, Draining, Stopped
    metricsExposed,  \* whether the exposition route is registered
    FAKE_ITEMS_DB,   \* id -> item
    ALL_ITEMS,       \* the list search_items filters
    pool,            \* the requests clients may send
    inflight,        \* requests dispatched and not yet answered
    nDispatched,     \* requests dispatched so far
    log,             \* the answered requests, in order, with their responses
    samples,         \* the metric samples recorded
    finished,        \* the spans ended
    buffer,          \* the BatchSpanProcessor queue
    accepting,       \* the span processor has not been shut down
    exporterOpen,    \* the OTLP exporter has not been shut down
    nExported,       \* spans the collector received
    nLost,           \* spans dropped: queue full, export failed, or shut down
    collectorUp      \* whether otel-collector:4317 is reachable

vars == << lifecycle, metricsExposed, FAKE_ITEMS_DB, ALL_ITEMS, pool, inflight,
           nDispatched, log, samples, finished, buffer, accepting,
           exporterOpen, nExported, nLost, collectorUp >>

\* the state once the module has been imported, for a given set of requests
InitWith(requests) ==
    /\ lifecycle = "NotStarted"
    /\ metricsExposed = FALSE
    /\ FAKE_ITEMS_DB = InitDB
    /\ ALL_ITEMS = InitItems
    /\ pool = requests
    /\ inflight = {}
    /\ nDispatched = 0
    /\ log = <<>>
    /\ samples = <<>>
    /\ finished = <<>>
    /\ buffer = <<>>
    /\ accepting = TRUE
    /\ exporterOpen = TRUE
    /\ nExported = 0
    /\ nLost = 0
    /\ collectorUp \in BOOLEAN

(***************************************************************************)
(* Actions.                                                                *)
(***************************************************************************)
\* the server enters the lifespan: the code before `yield`
Startup ==
    /\ lifecycle = "NotStarted"
    /\ metricsExposed' = lifespan_startup(metricsExposed)
    /\ lifecycle' = "Running"
    /\ UNCHANGED << FAKE_ITEMS_DB, ALL_ITEMS, pool, inflight, nDispatched, log,
                    samples, finished, buffer, accepting, exporterOpen,
                    nExported, nLost, collectorUp >>

\* the server accepts a request and starts its task
Dispatch ==
    /\ lifecycle = "Running"
    /\ nDispatched < MaxRequests
    /\ Cardinality(inflight) < MaxInflight
    /\ \E req \in pool :
          inflight' = inflight \cup {[id |-> nDispatched + 1, req |-> req]}
    /\ nDispatched' = nDispatched + 1
    /\ UNCHANGED << lifecycle, metricsExposed, FAKE_ITEMS_DB, ALL_ITEMS, pool,
                    log, samples, finished, buffer, accepting, exporterOpen,
                    nExported, nLost, collectorUp >>

\* one request runs through the middlewares, validation and its handler
Complete(r) ==
    /\ r \in inflight
    /\ CanRun(r, inflight \ {r})
    /\ LET out  == App(r.req, FAKE_ITEMS_DB, ALL_ITEMS, metricsExposed)
           resp == Respond(out.resp, collectorUp)
           q    == OnEnd(buffer, Span(r, resp), accepting)
       IN  /\ log' = Append(log, [id |-> r.id, req |-> r.req, resp |-> resp,
                                  ran |-> out.ran, up |-> collectorUp])
           /\ samples' = samples \o Sample(r, resp)
           /\ finished' = finished \o Span(r, resp)
           /\ buffer' = q
           /\ nLost' = IF Len(q) > Len(buffer) THEN nLost ELSE nLost + 1
    /\ ALL_ITEMS' = ItemsAfter(r.req, ALL_ITEMS)
    /\ FAKE_ITEMS_DB' = DBAfter(r.req, FAKE_ITEMS_DB)
    /\ inflight' = inflight \ {r}
    /\ UNCHANGED << lifecycle, metricsExposed, pool, nDispatched, accepting,
                    exporterOpen, nExported, collectorUp >>

\* the BatchSpanProcessor worker exports one batch; a failed export is
\* logged and its spans are dropped
ExportBatch ==
    /\ buffer # <<>>
    /\ exporterOpen
    /\ LET k == IF Len(buffer) < MaxBatch THEN Len(buffer) ELSE MaxBatch
       IN  /\ buffer' = SubSeq(buffer, k + 1, Len(buffer))
           /\ nExported' = IF collectorUp THEN nExported + k ELSE nExported
           /\ nLost' = IF collectorUp THEN nLost ELSE nLost + k
    /\ UNCHANGED << lifecycle, metricsExposed, FAKE_ITEMS_DB, ALL_ITEMS, pool,
                    inflight, nDispatched, log, samples, finished, accepting,
                    exporterOpen, collectorUp >>

\* the collector becomes reachable or unreachable
CollectorChange ==
    /\ collectorUp' = ~collectorUp
    /\ UNCHANGED << lifecycle, metricsExposed, FAKE_ITEMS_DB, ALL_ITEMS, pool,
                    inflight, nDispatched, log, samples, finished, buffer,
                    accepting, exporterOpen, nExported, nLost >>

\* the server receives the shutdown signal and stops accepting requests
ShutdownSignal ==
    /\ lifecycle = "Running"
    /\ lifecycle' = "Draining"
    /\ UNCHANGED << metricsExposed, FAKE_ITEMS_DB, ALL_ITEMS, pool, inflight,
                    nDispatched, log, samples, finished, buffer, accepting,
                    exporterOpen, nExported, nLost, collectorUp >>

\* the requests in flight have been answered and the server leaves the
\* lifespan: the code after `yield`
LifespanShutdown ==
    /\ lifecycle = "Draining"
    /\ inflight = {}
    /\ accepting' = lifespan_shutdown(accepting)
    /\ lifecycle' = "Stopped"
    /\ UNCHANGED << metricsExposed, FAKE_ITEMS_DB, ALL_ITEMS, pool, inflight,
                    nDispatched, log, samples, finished, buffer, exporterOpen,
                    nExported, nLost, collectorUp >>

\* the interpreter exits: the TracerProvider's exit hook shuts the span
\* processor down, which stops accepting spans, exports what is queued and
\* then shuts the exporter down
AtExit ==
    /\ lifecycle = "Stopped"
    /\ exporterOpen
    /\ accepting' = FALSE
    /\ buffer' = <<>>
    /\ nExported' = IF collectorUp THEN nExported + Len(buffer) ELSE nExported
    /\ nLost' = IF collectorUp THEN nLost ELSE nLost + Len(buffer)
    /\ exporterOpen' = FALSE
    /\ UNCHANGED << lifecycle, metricsExposed, FAKE_ITEMS_DB, ALL_ITEMS, pool,
                    inflight, nDispatched, log, samples, finished, collectorUp >>

Next ==
    \/ Startup
    \/ Dispatch
    \/ \E r \in inflight : Complete(r)
    \/ ExportBatch
    \/ CollectorChange
    \/ ShutdownSignal
    \/ LifespanShutdown
    \/ AtExit

(***************************************************************************)
(* The requests clients send, and the specifications.                      *)
(***************************************************************************)
RawIds ==
    { <<"1">>, <<"2">>, <<"3">>, <<"4">>, <<"5">>, <<"6">>, <<"0">>,
      <<"9","9">>, <<"-","1">>, <<"-">>, <<"a","b","c">>, <<"2","x">>,
      <<"1",".","5">> }

ItemRequests == { [route |-> "read_item", item_id |-> s] : s \in RawIds }

QueryNames ==
    { Absent, Str(<<>>), Str(<<"L","A","P">>), Str(<<"o">>),
      Str(<<"M","o","U","s","E">>), Str(<<"x">>) }

QueryPrices ==
    { Absent, FloatRaw(0), FloatRaw(0 - 1), FloatRaw(2500), FloatRaw(2501),
      FloatRaw(120000), FloatRaw(120001), [t |-> "nan"], [t |-> "inf"],
      [t |-> "ninf"], Str(<<"a","b","c">>) }

SearchRequests ==
    { [route |-> "search_items", name |-> n, min_price |-> m] :
        n \in QueryNames, m \in {Absent, FloatRaw(2500)} }
    \cup
    { [route |-> "search_items", name |-> n, min_price |-> m] :
        n \in {Absent}, m \in QueryPrices }

Tablet == <<"t","a","b","l","e","t">>

BodyNames == { Absent, Str(<<>>), Str(Tablet) }
BodyPrices ==
    { Absent, IntRaw(5), IntRaw(0 - 5), FloatRaw(49999), Str(<<"a","b","c">>) }
BodyOffers == { Absent, [t |-> "null"], BoolRaw(TRUE), BoolRaw(FALSE), Str(<<"y">>) }

CreateRequests ==
    { [route |-> "create_item", body |-> [name |-> n, price |-> p, is_offer |-> Absent]] :
        n \in BodyNames, p \in BodyPrices }
    \cup
    { [route |-> "create_item", body |-> [name |-> Str(Tablet), price |-> p, is_offer |-> o]] :
        p \in {IntRaw(5), FloatRaw(49999)}, o \in BodyOffers }

CreateTablet ==
    [route |-> "create_item",
     body |-> [name |-> Str(Tablet), price |-> FloatRaw(49999), is_offer |-> Absent]]

\* requests of the routes that take no input, and item lookups that end in
\* 200, 404 and 422
MixedRequests ==
    { [route |-> rt] :
        rt \in {"read_root", "get_status", "get_error_500", "get_error_400", "metrics"} }
    \cup { [route |-> "read_item", item_id |-> s] : s \in {<<"2">>, <<"9","9">>, <<"x">>} }

\* a created item, and the lookups and searches that would return it had it
\* been stored
CatalogRequests ==
    { CreateTablet,
      [route |-> "create_item",
       body |-> [name |-> Str(Mouse), price |-> IntRaw(1), is_offer |-> BoolRaw(TRUE)]],
      [route |-> "read_item", item_id |-> <<"4">>],
      [route |-> "read_item", item_id |-> <<"2">>],
      [route |-> "search_items", name |-> Absent, min_price |-> Absent],
      [route |-> "search_items", name |-> Str(<<"T","a","b">>), min_price |-> Absent] }

\* requests of four routes, each sent with the collector up and down
IsolationRequests ==
    { [route |-> "get_status"], [route |-> "get_error_500"],
      [route |-> "read_item", item_id |-> <<"3">>],
      [route |-> "search_items", name |-> Str(<<"K","E","Y">>), min_price |-> Absent],
      CreateTablet }

Init == InitWith(MixedRequests)
Spec == Init /\ [][Next]_vars

InitCatalogRequests == InitWith(CatalogRequests)
SpecCatalog == InitCatalogRequests /\ [][Next]_vars

InitIsolationRequests == InitWith(IsolationRequests)
SpecIsolation == InitIsolationRequests /\ [][Next]_vars

\* The specifications of the claims about one handler's result: the server
\* starts and requests are dispatched and answered, in any interleaving.
NextServe ==
    \/ Startup
    \/ Dispatch
    \/ \E r \in inflight : Complete(r)

InitItemRequests == InitWith(ItemRequests)
SpecItems == InitItemRequests /\ [][NextServe]_vars

InitSearchRequests == InitWith(SearchRequests)
SpecSearch == InitSearchRequests /\ [][NextServe]_vars

InitCreateRequests == InitWith(CreateRequests)
SpecCreate == InitCreateRequests /\ [][NextServe]_vars

(***************************************************************************)
(* Properties.                                                             *)
(***************************************************************************)
Answered == { log[k] : k \in 1..Len(log) }
AnsweredOf(route) == { e \in Answered : e.req.route = route }

\* the path segments that spell an integer, with the integer each spells
IntegerSegments ==
    (<<"1">> :> 1) @@ (<<"2">> :> 2) @@ (<<"3">> :> 3) @@ (<<"4">> :> 4) @@
    (<<"5">> :> 5) @@ (<<"6">> :> 6) @@ (<<"0">> :> 0) @@ (<<"9","9">> :> 99) @@
    (<<"-","1">> :> 0 - 1)

\* C1: GET /items/{item_id} answers 200 with {item_id, name, price} of the
\* stored item for the ids 1 to 3, 404 "Item not found" for every other
\* integer, and 422 without running the handler for a segment that is not an
\* integer.
C1_ReadItem ==
    \A e \in AnsweredOf("read_item") :
        IF e.req.item_id \in DOMAIN IntegerSegments
        THEN LET id == IntegerSegments[e.req.item_id]
             IN  IF id \in 1..3
                 THEN /\ e.resp.status = 200
                      /\ e.resp.body = [item_id |-> id,
                                        name |-> FAKE_ITEMS_DB[id].name,
                                        price |-> FAKE_ITEMS_DB[id].price]
                      /\ e.ran
                 ELSE /\ e.resp.status = 404
                      /\ e.resp.body = [detail |-> "Item not found"]
        ELSE /\ e.resp.status = 422
             /\ ~e.ran

C1_Witness ==
    /\ \E e \in AnsweredOf("read_item") :
          e.req.item_id = <<"2">> /\ e.resp.status = 200 /\ e.resp.body.price = 25
    /\ \E e \in AnsweredOf("read_item") :
          e.req.item_id = <<"1",".","5">> /\ e.resp.status = 422

\* a is a substring of b
IsSubstring(a, b) ==
    \E i \in 1..(Len(b) + 1) : \E j \in (i - 1)..Len(b) : SubSeq(b, i, j) = a

\* the inclusive price bound of the search, in hundredths
AtLeast(price, raw) ==
    CASE raw.t = "absent" -> price >= 0
      [] raw.t = "float" -> 100 * price >= raw.c
      [] raw.t = "ninf" -> TRUE
      [] OTHER -> FALSE

Selected(item, req) ==
    /\ (req.name.t = "absent" \/ IsSubstring(Lower(req.name.s), Lower(item.name)))
    /\ AtLeast(item.price, req.min_price)

ValidSearch(req) ==
    /\ req.name.t \in {"absent", "str"}
    /\ req.min_price.t \in {"absent", "float", "nan", "inf", "ninf"}

MaxPrice == CHOOSE p \in {ALL_ITEMS[i].price : i \in 1..Len(ALL_ITEMS)} :
                \A i \in 1..Len(ALL_ITEMS) : ALL_ITEMS[i].price <= p

\* C2: GET /search/ answers 200 with exactly the items of the search list, in
\* list order, whose name contains the lower-cased query name (when one is
\* given) and whose price is at least min_price (default 0); a min_price above
\* every price selects nothing, and a min_price of at most 0 without a name
\* selects all five items.
C2_Search ==
    \A e \in AnsweredOf("search_items") :
        ValidSearch(e.req) =>
            LET Keep(item) == Selected(item, e.req)
                m == e.req.min_price
            IN  /\ e.resp.status = 200
                /\ e.resp.body.search_results = SelectSeq(ALL_ITEMS, Keep)
                /\ (m.t = "float" /\ m.c > 100 * MaxPrice
                        => e.resp.body.search_results = <<>>)
                /\ (m.t = "float" /\ m.c <= 0 /\ e.req.name.t = "absent"
                        => /\ e.resp.body.search_results = ALL_ITEMS
                           /\ Len(ALL_ITEMS) = 5)

C2_Witness ==
    /\ \E e \in AnsweredOf("search_items") :
          /\ e.req.name = Str(<<"L","A","P">>)
          /\ e.req.min_price = Absent
          /\ e.resp.body.search_results = <<[name |-> Laptop, price |-> 1200]>>
    /\ \E e \in AnsweredOf("search_items") :
          /\ e.req.name = Str(<<"o">>)
          /\ e.req.min_price = FloatRaw(2500)
          /\ Len(e.resp.body.search_results) = 4
          /\ e.resp.body.search_results[2].name = Mouse

ValidBody(body) ==
    /\ body.name.t = "str"
    /\ body.price.t \in {"int", "float"}
    /\ body.is_offer.t \in {"absent", "null", "bool"}

\* a validated float equals the number the client sent
SameNumber(float, raw) ==
    /\ float.t = "float"
    /\ float.c = IF raw.t = "int" THEN 100 * raw.n ELSE raw.c

\* C3: POST /items/ answers every valid body, whatever the price and the
\* name, with 200, the message "Item created successfully" and an item of
\* exactly the fields name, price and is_offer, equal to the values sent,
\* is_offer being null when the body left it out.
C3_Echo ==
    \A e \in AnsweredOf("create_item") :
        ValidBody(e.req.body) =>
            /\ e.resp.status = 200
            /\ DOMAIN e.resp.body = {"message", "item"}
            /\ e.resp.body.message = "Item created successfully"
            /\ DOMAIN e.resp.body.item = {"name", "price", "is_offer"}
            /\ e.resp.body.item.name = e.req.body.name.s
            /\ SameNumber(e.resp.body.item.price, e.req.body.price)
            /\ e.resp.body.item.is_offer =
                  IF e.req.body.is_offer.t = "bool" THEN e.req.body.is_offer
                  ELSE None

C3_Witness ==
    /\ \E e \in AnsweredOf("create_item") :
          /\ e.req.body = [name |-> Str(<<>>), price |-> IntRaw(0 - 5), is_offer |-> Absent]
          /\ e.resp.status = 200
          /\ e.resp.body.item.is_offer = None
    /\ \E e \in AnsweredOf("create_item") :
          /\ e.req.body.is_offer = BoolRaw(TRUE)
          /\ e.resp.status = 200

Elements(seq) == { seq[i] : i \in 1..Len(seq) }

\* C4: the catalog is read-only: whatever requests have been dispatched and
\* answered, in whatever interleaving, the id-to-item mapping and the search
\* list are the ones the module built, and every item a lookup or a search
\* returns is one of them, never one sent to POST /items/.
C4_CatalogReadOnly ==
    /\ FAKE_ITEMS_DB = InitDB
    /\ ALL_ITEMS = InitItems
    /\ \A e \in AnsweredOf("search_items") :
          e.resp.status = 200 =>
              Elements(e.resp.body.search_results) \subseteq Elements(InitItems)
    /\ \A e \in AnsweredOf("read_item") :
          e.resp.status = 200 =>
              \E id \in DOMAIN InitDB :
                  /\ e.resp.body.name = InitDB[id].name
                  /\ e.resp.body.price = InitDB[id].price

\* an item was created before a search and before a lookup of id 4
C4_Witness ==
    /\ Len(log) = 2
    /\ log[1].req.route = "create_item"
    /\ log[1].resp.status = 200
    /\ \/ /\ log[2].req = [route |-> "search_items", name |-> Str(<<"T","a","b">>),
                           min_price |-> Absent]
          /\ log[2].resp.body.search_results = <<>>
       \/ /\ log[2].req = [route |-> "read_item", item_id |-> <<"4">>]
          /\ log[2].resp.status = 404

\* C5: the same request gets the same status and body whether the collector
\* was reachable or not when it was answered: the trace export, and its
\* failure, never reach the client.
C5_Isolation ==
    \A e1 \in Answered : \A e2 \in Answered :
        e1.req = e2.req => e1.resp = e2.resp

\* the same request answered once with the collector up and once with it
\* down, and an export that failed
C5_Witness ==
    /\ \E e1 \in Answered : \E e2 \in Answered :
          e1.req = e2.req /\ e1.up /\ ~e2.up
    /\ nLost > 0
    /\ nExported > 0

WithId(seq, id) == { i \in 1..Len(seq) : seq[i].id = id }

LifecycleSteps ==
    { <<"NotStarted", "Running">>, <<"Running", "Draining">>, <<"Draining", "Stopped">> }

\* C7: the lifecycle only steps NotStarted -> Running -> Draining -> Stopped;
\* a request is dispatched or answered only once Running has been reached and
\* the startup hook has registered the metrics route, so every request for
\* the metrics is served.
C7_Lifecycle ==
    [][ /\ (lifecycle' # lifecycle => <<lifecycle, lifecycle'>> \in LifecycleSteps)
        /\ (inflight' # inflight \/ log' # log =>
                /\ lifecycle \in {"Running", "Draining"}
                /\ metricsExposed)
        /\ \A k \in 1..Len(log') :
               log'[k].req.route = "metrics" => log'[k].resp.status = 200 ]_vars

C7_Witness ==
    /\ lifecycle = "Stopped"
    /\ \E e \in AnsweredOf("metrics") : e.resp.status = 200 /\ e.ran

\* C8: once Draining has begun no span is added to the buffer, and in the
\* Stopped state the buffer is empty and the exporter is closed.
C8_Teardown ==
    [][ /\ (lifecycle \in {"Draining", "Stopped"} => Len(buffer') <= Len(buffer))
        /\ (lifecycle' = "Stopped" => buffer' = <<>> /\ ~exporterOpen') ]_vars

\* the response a request gets when it is the only one the server ever runs
Alone(req) == App(req, InitDB, InitItems, TRUE).resp

\* C9: every request in flight can be answered at once, whatever other
\* requests are in flight and whatever the state of the span queue and of the
\* collector, and its response is the one it gets when run alone.
C9_NoWaiting ==
    /\ \A r \in inflight : ENABLED Complete(r)
    /\ \A e \in Answered : e.resp = Alone(e.req)

\* the second of two requests in flight was answered while the first was
\* still in flight
C9_Witness ==
    /\ \E r \in inflight : r.id = 1
    /\ \E e \in Answered : e.id = 2
    /\ nDispatched = 2

\* C10 as claimed: every position i of the search list is an id, and
\* GET /items/i answers 200 with the name and price of the item at position i.
C10_EveryPositionIsAnId ==
    \A e \in AnsweredOf("read_item") :
        e.req.item_id \in DOMAIN IntegerSegments =>
            LET i == IntegerSegments[e.req.item_id]
            IN  i \in 1..Len(ALL_ITEMS) =>
                    /\ e.resp.status = 200
                    /\ e.resp.body.name = ALL_ITEMS[i].name
                    /\ e.resp.body.price = ALL_ITEMS[i].price

\* C10 as amended: the ids are the positions 1 to 3 only; GET /items/i for
\* them answers 200 with the name and price of the item at position i of the
\* search list, and the positions 4 and 5 of the list are not ids: GET
\* /items/4 and GET /items/5 answer 404.
C10_FirstThreePositions ==
    \A e \in AnsweredOf("read_item") :
        e.req.item_id \in DOMAIN IntegerSegments =>
            LET i == IntegerSegments[e.req.item_id]
            IN  /\ i \in 1..3 =>
                    /\ e.resp.status = 200
                    /\ e.resp.body.item_id = i
                    /\ e.resp.body.name = ALL_ITEMS[i].name
                    /\ e.resp.body.price = ALL_ITEMS[i].price
                /\ i \in 4..Len(ALL_ITEMS) => e.resp.status = 404

C10_Witness ==
    /\ \E e \in AnsweredOf("read_item") :
          e.req.item_id = <<"3">> /\ e.resp.status = 200 /\ e.resp.body.name = Keyboard
    /\ \E e \in AnsweredOf("read_item") :
          e.req.item_id = <<"5">> /\ e.resp.status = 404

=============================================================================
